---- MODULE Spec2Model ----
(***************************************************************************)
(* pykhiops.core.helpers.deploy_coclustering as a state machine.           *)
(*                                                                         *)
(* Up to two invocations (Calls) run side by side on one file system.      *)
(* Every invocation walks the statements of deploy_coclustering in source  *)
(* order; each engine task is a blocking call that is started, and then    *)
(* either returns or raises.  A raised exception is never caught by        *)
(* deploy_coclustering, so it ends the invocation.                         *)
(*                                                                         *)
(* A path is a sequence of components, <<".", "r1", "Keys" \o "t.txt">>.   *)
(***************************************************************************)
EXTENDS Naturals, Sequences, FiniteSets, TLC

\* ------------------------------------------------------------------ bounds

\* Longest key_variable_names list a caller passes.
MaxKeys == 2

MaxEntries == 2

MaxVariables == 2

MaxTargets == 3

\* Number of distinct names the runner can draw for a temporary file.
NumTokens == 2

\* ------------------------------------------------------ values and inputs

Calls == {1, 2}

None == "None"

\* The caller's dictionary domain: dictionary name -> variable name -> type.
Domain ==
    [A |-> [Id |-> "Categorical", Age |-> "Numerical"],
     B |-> [Id |-> "Categorical", Age |-> "Categorical"]]

DictionaryNames == DOMAIN Domain

\* The key of each dictionary of the caller's domain.
DomainKeys == [A |-> <<>>, B |-> <<"Age">>]

\* Names a caller may put in key_variable_names ("Zz" is in no dictionary).
KeyNames == {"Id", "Age", "Zz"}

RECURSIVE SeqsUpTo(_, _)
SeqsUpTo(S, n) ==
    IF n = 0 THEN {<<>>}
    ELSE LET shorter == SeqsUpTo(S, n - 1)
         IN  shorter \cup {Append(s, x) : s \in {t \in shorter : Len(t) = n - 1}, x \in S}

KeyLists == SeqsUpTo(KeyNames, MaxKeys)

TempDir == <<"/", "tmp">>

ResultsDirs == {<<"r1">>, <<".", "r1">>, <<"/", "r2">>}

DataTablePaths == {<<"/", "d", "t.txt">>, <<"/", "e", "t.txt">>, <<"/", "d", "u.txt">>}

CoclusteringFilePath == <<"/", "m", "c.khc">>

DeployedVariableName == "Cluster"

HeaderArgs == {None, "True", "False"}

SeparatorArgs == {None, ";"}

\* What the engine's format detection can report.
DetectedFormats == {<<"True", "\t">>, <<"False", ",">>}

ResultsPrefixes == {"", "P_"}

\* The arguments of one call of deploy_coclustering.
ArgSpace ==
    [dictionary_file_path_or_domain : {"domain", "path", "invalid"},
     dictionary_name : DictionaryNames,
     data_table_path : {<<"/", "d", "t.txt">>, <<"/", "e", "u.txt">>},
     key_list_like : BOOLEAN,
     key_variable_names : KeyLists,
     results_dir : {<<"r1">>, <<"/", "r2">>},
     detect_format : BOOLEAN,
     header_line : HeaderArgs,
     field_separator : SeparatorArgs,
     output_header_line : {"True"},
     output_field_separator : {"\t"},
     build_cluster_variable : BOOLEAN,
     results_prefix : ResultsPrefixes]

\* The arguments two side-by-side calls draw from: type-correct, with the
\* paths and the prefix varying; the format is detected for one of them.
PairArgSpace ==
    {a \in [dictionary_file_path_or_domain : {"domain"},
            dictionary_name : {"A"},
            data_table_path : DataTablePaths,
            key_list_like : {TRUE},
            key_variable_names : {<<"Id">>},
            results_dir : ResultsDirs,
            detect_format : BOOLEAN,
            header_line : {None},
            field_separator : {None},
            output_header_line : {"True"},
            output_field_separator : {"\t"},
            build_cluster_variable : {TRUE},
            results_prefix : ResultsPrefixes] :
        a.detect_format =>
            /\ a.data_table_path = <<"/", "d", "u.txt">>
            /\ a.results_dir = <<"/", "r2">>
            /\ a.results_prefix = ""}

\* The arguments of a call whose formats vary: those of the input and those
\* asked for the deployed table.
FormatArgSpace ==
    [dictionary_file_path_or_domain : {"domain"},
     dictionary_name : {"A"},
     data_table_path : {<<"/", "d", "t.txt">>},
     key_list_like : {TRUE},
     key_variable_names : {<<"Id">>},
     results_dir : {<<"/", "r2">>},
     detect_format : BOOLEAN,
     header_line : HeaderArgs,
     field_separator : SeparatorArgs,
     output_header_line : {"True", "False"},
     output_field_separator : {"\t", ";", ","},
     build_cluster_variable : {TRUE},
     results_prefix : {""}]

NoArgs ==
    [dictionary_file_path_or_domain |-> "domain",
     dictionary_name |-> "A",
     data_table_path |-> <<>>,
     key_list_like |-> TRUE,
     key_variable_names |-> <<>>,
     results_dir |-> <<>>,
     detect_format |-> FALSE,
     header_line |-> None,
     field_separator |-> None,
     output_header_line |-> "True",
     output_field_separator |-> "\t",
     build_cluster_variable |-> TRUE,
     results_prefix |-> ""]

\* ------------------------------------------------------------- the tasks

EngineTasks ==
    {"detect_data_table_format", "build_multi_table_dictionary",
     "prepare_coclustering_deployment", "extract_keys_from_data_table",
     "deploy_model"}

\* The engine calls of the main chain, in source order.
Chain ==
    <<"build_multi_table_dictionary", "prepare_coclustering_deployment",
      "extract_keys_from_data_table", "deploy_model">>

ChainTasks == {Chain[k] : k \in DOMAIN Chain}

IndexOf(task) == CHOOSE k \in DOMAIN Chain : Chain[k] = task

\* The statement that follows the return of a chain task.
NextStepSwapped(task) ==
    CASE task = "build_multi_table_dictionary" -> "extract_keys_from_data_table"
      [] task = "extract_keys_from_data_table" -> "prepare_coclustering_deployment"
      [] task = "prepare_coclustering_deployment" -> "deploy_model"
      [] OTHER -> "return"

NextStep(task) ==
    IF IndexOf(task) < Len(Chain) THEN Chain[IndexOf(task) + 1] ELSE "return"

\* Where control goes when a step raises: nothing in deploy_coclustering
\* catches, so the exception leaves the function.
AfterFailureContinue(task) ==
    IF task \in ChainTasks THEN NextStep(task) ELSE "raised"

AfterFailure(task) == "raised"

\* ------------------------------------------------------------ path helpers

create_unambiguous_khiops_path(path) ==
    IF path[1] \in {".", "/"} THEN path ELSE <<".">> \o path

get_child_path(dir, name) == Append(dir, name)

basename(path) == path[Len(path)]

root_dictionary_name(dictionary_name) == "CC_" \o dictionary_name

table_variable_name(dictionary_name) == "Table_" \o dictionary_name

keys_table_file_path_nodir(results_dir, data_table_path) ==
    get_child_path(TempDir, "Keys" \o basename(data_table_path))

keys_table_file_path(results_dir, data_table_path) ==
    get_child_path(results_dir, "Keys" \o basename(data_table_path))

coclustering_dictionary_file_path(results_dir) ==
    get_child_path(results_dir, "Coclustering.kdic")

output_data_table_path(results_dir, data_table_path) ==
    get_child_path(results_dir, "Deployed" \o basename(data_table_path))

\* A data path names a secondary table as root-dictionary name, back quote,
\* table variable name; it is kept here as the pair of the two names.
data_path(root, table_variable) == <<root, table_variable>>

additional_data_tables_unrooted(dictionary_name, data_table_path) ==
    {<<data_path(dictionary_name, table_variable_name(dictionary_name)), data_table_path>>}

additional_data_tables(dictionary_name, data_table_path) ==
    {<<data_path(root_dictionary_name(dictionary_name), table_variable_name(dictionary_name)),
       data_table_path>>}

\* The runner's temporary file of a given token.
temp_file_path(prefix, token, suffix) ==
    get_child_path(TempDir, prefix \o ToString(token) \o suffix)

\* The deployment dictionary the engine's prepare task writes: the result
\* file "Coclustering.kdic" under ResultFilesDirectory, named with
\* ResultFilesPrefix.
prepare_result_path(results_dir, results_prefix) ==
    get_child_path(results_dir, results_prefix \o "Coclustering.kdic")

\* ------------------------------------------------------------------ state

VARIABLES
    pc,                   \* per call: the statement about to run
    args,                 \* per call: the arguments it was called with
    results_dir,          \* per call: results_dir after disambiguation
    header_line,          \* per call: the resolved header_line
    field_separator,      \* per call: the resolved field_separator
    tmp_dictionary_path,  \* per call: the temporary dictionary file, <<>> if none
    running,              \* per call: the engine tasks in progress
    invocations,          \* per call, per engine task: the arguments of each invocation
    log,                  \* per call: the start / ok / fail events of its steps
    files,                \* the file system: one record per existing path
    writes,               \* every write ever made: [path, by, task]
    removals,             \* every deletion ever attempted: [path, by]
    result,               \* per call: <<>> or the returned pair of paths
    error,                \* per call: "" or the exception that ended it
    domain_keys,          \* the caller's domain: the key of each dictionary
    tmp_dictionary_key    \* per call: the key of tmp_dictionary

domainVars == <<domain_keys, tmp_dictionary_key>>

vars ==
    <<pc, args, results_dir, header_line, field_separator, tmp_dictionary_path,
      running, invocations, log, files, writes, removals, result, error, domainVars>>

Paths(fs) == {f.path : f \in fs}

\* The file system after `by` writes `path` in `task`.
Write(fs, path, by, task) ==
    {f \in fs : f.path # path} \cup {[path |-> path, by |-> by, task |-> task]}

Event(step, ev) == [step |-> step, ev |-> ev]

\* ------------------------------------- the prepare_coclustering_deployment task

\* A line of a scenario template: the text before a "__name__" token, the
\* name of the token ("" when the line has none) and the text after it.
Line(pre, token, post) == [pre |-> pre, token |-> token, post |-> post]

Literal(text) == Line(text, "", "")

prepare_name == "prepare_coclustering_deployment"

prepare_intro_version_10 == "10.0"

prepare_intro_version == "9.0"

\* The required parameters, in order.
prepare_required_with_results_prefix ==
    <<[name |-> "dictionary_file_path", type |-> "StringLikeType"],
      [name |-> "dictionary_name", type |-> "StringLikeType"],
      [name |-> "coclustering_file_path", type |-> "StringLikeType"],
      [name |-> "table_variable", type |-> "StringLikeType"],
      [name |-> "deployed_variable_name", type |-> "StringLikeType"],
      [name |-> "results_prefix", type |-> "StringLikeType"]>>

prepare_required ==
    <<[name |-> "dictionary_file_path", type |-> "StringLikeType"],
      [name |-> "dictionary_name", type |-> "StringLikeType"],
      [name |-> "coclustering_file_path", type |-> "StringLikeType"],
      [name |-> "table_variable", type |-> "StringLikeType"],
      [name |-> "deployed_variable_name", type |-> "StringLikeType"],
      [name |-> "results_dir", type |-> "StringLikeType"]>>

\* A value of DictType: None, or the items of the dict in insertion order.
NoneDict == [is_none |-> TRUE, items |-> <<>>]

Dict(items) == [is_none |-> FALSE, items |-> items]

\* The optional parameters with their defaults, in order.
prepare_optional_without_prefixes ==
    <<[name |-> "max_preserved_information", type |-> "IntType", default |-> 0],
      [name |-> "max_cells", type |-> "IntType", default |-> 0],
      [name |-> "max_part_numbers", type |-> "DictType", default |-> NoneDict,
        key_type |-> "StringLikeType", value_type |-> "IntType"],
      [name |-> "build_cluster_variable", type |-> "BoolType", default |-> TRUE],
      [name |-> "build_distance_variables", type |-> "BoolType", default |-> FALSE],
      [name |-> "build_frequency_variables", type |-> "BoolType", default |-> FALSE]>>

prepare_optional ==
    <<[name |-> "max_preserved_information", type |-> "IntType", default |-> 0],
      [name |-> "max_cells", type |-> "IntType", default |-> 0],
      [name |-> "max_part_numbers", type |-> "DictType", default |-> NoneDict,
        key_type |-> "StringLikeType", value_type |-> "IntType"],
      [name |-> "build_cluster_variable", type |-> "BoolType", default |-> TRUE],
      [name |-> "build_distance_variables", type |-> "BoolType", default |-> FALSE],
      [name |-> "build_frequency_variables", type |-> "BoolType", default |-> FALSE],
      [name |-> "variables_prefix", type |-> "StringLikeType", default |-> ""],
      [name |-> "results_prefix", type |-> "StringLikeType", default |-> ""]>>

\* The parameters that must not be left empty.
prepare_non_empty_without_results_dir ==
    <<"dictionary_file_path", "coclustering_file_path">>

prepare_non_empty ==
    <<"dictionary_file_path", "coclustering_file_path", "results_dir">>

\* The scenario template, line by line.
prepare_template ==
    <<Literal(""),
      Literal("// Dictionary file and class settings"),
      Literal("ClassManagement.OpenFile"),
      Line("ClassFileName ", "dictionary_file_path", ""),
      Literal("OK"),
      Line("ClassManagement.ClassName ", "dictionary_name", ""),
      Literal(""),
      Literal("// Prepare deployment window"),
      Literal("LearningTools.PrepareDeployment"),
      Literal(""),
      Literal("// Coclustering file"),
      Literal("SelectInputCoclustering"),
      Line("InputCoclusteringFileName ", "coclustering_file_path", ""),
      Literal("OK"),
      Literal(""),
      Literal("// Simplification settings"),
      Line("PostProcessingSpec.MaxPreservedInformation ", "max_preserved_information", ""),
      Line("PostProcessingSpec.MaxCellNumber ", "max_cells", ""),
      Line("", "DICT", ""),
      Line("", "max_part_numbers", ""),
      Literal("PostProcessingSpec.PostProcessedAttributes.List.Key"),
      Literal("PostProcessingSpec.PostProcessedAttributes.MaxPartNumber"),
      Line("", "END_DICT", ""),
      Literal(""),
      Literal("// Deployment dictionary settings"),
      Line("DeploymentSpec.InputObjectArrayAttributeName ", "table_variable", ""),
      Line("DeploymentSpec.DeployedAttributeName ", "deployed_variable_name", ""),
      Line("DeploymentSpec.BuildPredictedClusterAttribute ", "build_cluster_variable", ""),
      Line("DeploymentSpec.BuildClusterDistanceAttributes ", "build_distance_variables", ""),
      Line("DeploymentSpec.BuildFrequencyRecodingAttributes ", "build_frequency_variables", ""),
      Line("DeploymentSpec.OutputAttributesPrefix ", "variables_prefix", ""),
      Literal(""),
      Literal("// Output settings"),
      Line("AnalysisResults.ResultFilesDirectory ", "results_dir", ""),
      Line("AnalysisResults.ResultFilesPrefix ", "results_prefix", ""),
      Literal(""),
      Literal("// Execute prepare deployment"),
      Literal("PrepareDeployment"),
      Literal("Exit")>>

\* The tasks of the family.
TASKS ==
    <<[name |-> prepare_name,
       tool_name |-> "khiops_coclustering",
       intro_version |-> prepare_intro_version,
       required |-> prepare_required,
       optional |-> prepare_optional,
       non_empty |-> prepare_non_empty,
       template |-> prepare_template]>>

\* ------------------------------------------------------ the task registry

\* A dotted version as its numeric segments: "10.0" is <<10, 0>>.
Digit(c) == CHOOSE d \in 0..9 : ToString(d) = c

RECURSIVE Segments(_, _, _)
Segments(s, k, current) ==
    IF k > Len(s) THEN <<current>>
    ELSE IF SubSeq(s, k, k) = "." THEN <<current>> \o Segments(s, k + 1, 0)
    ELSE Segments(s, k + 1, current * 10 + Digit(SubSeq(s, k, k)))

ParseVersion(s) == Segments(s, 1, 0)

Segment(v, k) == IF k <= Len(v) THEN v[k] ELSE 0

\* v <= w, segment by segment as numbers.
RECURSIVE SegmentsLE(_, _, _)
SegmentsLE(v, w, k) ==
    IF k > Len(v) /\ k > Len(w) THEN TRUE
    ELSE IF Segment(v, k) < Segment(w, k) THEN TRUE
    ELSE IF Segment(v, k) > Segment(w, k) THEN FALSE
    ELSE SegmentsLE(v, w, k + 1)

VersionLE(v, w) == SegmentsLE(ParseVersion(v), ParseVersion(w), 1)

\* What the registry keeps of a task: its name, its minimum version, and
\* which of the specs of that name and version it is.
Registered(task, id) == [name |-> task.name, min_version |-> task.intro_version, id |-> id]

\* resolve(name, installed_version) on the registry `reg`.
resolve(reg, name, installed_version) ==
    LET qualifying == {t \in reg : t.name = name /\ VersionLE(t.min_version, installed_version)}
        latest == {t \in qualifying : \A u \in qualifying : VersionLE(u.min_version, t.min_version)}
    IN  IF qualifying = {} THEN [outcome |-> "UnsupportedVersion", spec |-> <<>>]
        ELSE IF Cardinality(latest) > 1 THEN [outcome |-> "AmbiguousTaskSpec", spec |-> <<>>]
        ELSE [outcome |-> "ok", spec |-> <<CHOOSE t \in latest : TRUE>>]

\* The specs a caller may register besides those of TASKS.
RegisterSpace ==
    [name : {prepare_name, "deploy_model"}, min_version : {"8.0", "9.0", "10.0"}, id : {1}]

InstalledVersions == {"7.0", "8.5", "9.0", "9.5", "10.0", "10.1"}

VARIABLES
    registry,             \* the registered specs
    resolution            \* <<>> or the last resolve: its arguments, the registry then, its outcome

registryVars == <<registry, resolution>>

RegistryInit ==
    /\ registry = {Registered(TASKS[k], 0) : k \in DOMAIN TASKS}
    /\ resolution = <<>>

\* ------------------------------------------------------ parameter types

\* ParameterType.format for the scalar types.
format(type, value) ==
    CASE type = "BoolType" -> IF value THEN "true" ELSE "false"
      [] type = "IntType" -> ToString(value)
      [] type = "StringLikeType" -> value

\* MappingOf(K, V).format: per entry, the key's line then the value's line.
RECURSIVE format_mapping_reversed(_, _, _)
format_mapping_reversed(key_type, value_type, items) ==
    IF items = <<>> THEN <<>>
    ELSE format_mapping_reversed(key_type, value_type, Tail(items))
             \o <<format(key_type, Head(items)[1]), format(value_type, Head(items)[2])>>

RECURSIVE format_mapping(_, _, _)
format_mapping(key_type, value_type, items) ==
    IF items = <<>> THEN <<>>
    ELSE <<format(key_type, Head(items)[1]), format(value_type, Head(items)[2])>>
             \o format_mapping(key_type, value_type, Tail(items))

\* The empty sentinel of a type.
IsEmptySentinel(type, value) ==
    CASE type = "StringLikeType" -> value = ""
      [] type = "DictType" -> value.is_none \/ value.items = <<>>
      [] OTHER -> FALSE

\* ---------------------------------------------------- the scenario renderer

Parameters(task) == task.required \o task.optional

ParameterNames(parameters) == {parameters[k].name : k \in DOMAIN parameters}

Parameter(task, name) ==
    LET parameters == Parameters(task)
    IN  parameters[CHOOSE k \in DOMAIN parameters : parameters[k].name = name]

\* A binding: the values the caller gives (`value`, read only at the names of
\* `supplied`); the other parameters take their defaults.
value_of(task, b, name) ==
    IF name \in b.supplied THEN b.value[name] ELSE Parameter(task, name).default

\* The name resolves to the empty or absent sentinel.
IsMissing(task, b, name) ==
    IF name \in b.supplied
    THEN IsEmptySentinel(Parameter(task, name).type, b.value[name])
    ELSE \/ name \in ParameterNames(task.required)
         \/ IsEmptySentinel(Parameter(task, name).type, Parameter(task, name).default)

BlockMarkers == {"DICT", "END_DICT"}

\* The line of the block-end marker closing the block that starts at line k.
BlockEnd(template, k) ==
    CHOOSE e \in (k + 1)..Len(template) :
        /\ template[e].token = "END_DICT"
        /\ \A j \in (k + 1)..(e - 1) : template[j].token # "END_DICT"

IsHeaderLine(line) == line.token = ""

\* The header lines of the block starting at line k, and its mapping token.
BlockHeader(template, k) ==
    LET header == SelectSeq(SubSeq(template, k + 1, BlockEnd(template, k) - 1), IsHeaderLine)
    IN  [j \in DOMAIN header |-> header[j].pre]

BlockToken(template, k) ==
    LET j == CHOOSE j \in (k + 1)..(BlockEnd(template, k) - 1) : template[j].token # ""
    IN  template[j].token

\* What a mapping block renders to.
render_block_keeping_header(task, b, k) ==
    LET parameter == Parameter(task, BlockToken(task.template, k))
        mapping == value_of(task, b, parameter.name)
    IN  BlockHeader(task.template, k)
            \o format_mapping(parameter.key_type, parameter.value_type, mapping.items)

render_block(task, b, k) ==
    LET parameter == Parameter(task, BlockToken(task.template, k))
        mapping == value_of(task, b, parameter.name)
    IN  IF IsEmptySentinel(parameter.type, mapping) THEN <<>>
        ELSE BlockHeader(task.template, k)
                 \o format_mapping(parameter.key_type, parameter.value_type, mapping.items)

\* What a line with a scalar token renders to.
render_scalar(task, b, line) ==
    line.pre \o format(Parameter(task, line.token).type, value_of(task, b, line.token))
        \o line.post

\* render(TaskSpec, binding): the failure, or the scenario line by line.
RECURSIVE render_from(_, _, _)
render_from(task, b, k) ==
    IF k > Len(task.template) THEN <<>>
    ELSE IF task.template[k].token = "" THEN
        <<task.template[k].pre>> \o render_from(task, b, k + 1)
    ELSE IF task.template[k].token = "DICT" THEN
        render_block(task, b, k) \o render_from(task, b, BlockEnd(task.template, k) + 1)
    ELSE <<render_scalar(task, b, task.template[k])>> \o render_from(task, b, k + 1)

render(task, b) ==
    IF \E k \in DOMAIN task.non_empty : IsMissing(task, b, task.non_empty[k])
    THEN [error |-> "MissingRequiredParameter", scenario |-> <<>>]
    ELSE [error |-> "", scenario |-> render_from(task, b, 1)]

\* A path as the text written into a scenario.
RECURSIVE PathText(_)
PathText(path) ==
    IF path = <<>> THEN ""
    ELSE IF Len(path) = 1 THEN path[1]
    ELSE IF path[1] = "/" THEN "/" \o PathText(Tail(path))
    ELSE path[1] \o "/" \o PathText(Tail(path))

\* The bindings rendered: the flagged parameters given, empty or omitted, the
\* mapping absent, None, empty or of up to MaxEntries entries in either
\* order, the boolean given or left to its default.
MappingKeys == {"a", "b"}

MappingItems ==
    {items \in SeqsUpTo(MappingKeys \X {1, 2}, MaxEntries) :
        \A j, k \in DOMAIN items : j # k => items[j][1] # items[k][1]}

MappingValues == {NoneDict} \cup {Dict(items) : items \in MappingItems}

ValueSpace ==
    [dictionary_file_path : {"", "/tmp/CC_A.kdic"},
     dictionary_name : {"CC_A"},
     coclustering_file_path : {"", "/d/c.khcj"},
     table_variable : {"Table_A"},
     deployed_variable_name : {"Cluster"},
     results_dir : {"", "/r"},
     max_preserved_information : {0},
     max_cells : {0},
     max_part_numbers : MappingValues,
     build_cluster_variable : BOOLEAN,
     build_distance_variables : {FALSE},
     build_frequency_variables : {FALSE},
     variables_prefix : {""},
     results_prefix : {""}]

Omittable ==
    {"dictionary_file_path", "coclustering_file_path", "results_dir",
     "max_part_numbers", "build_cluster_variable"}

\* The value an omitted parameter carries in `value`, where it is not read.
Unread ==
    [dictionary_file_path |-> "", coclustering_file_path |-> "", results_dir |-> "",
     max_part_numbers |-> NoneDict, build_cluster_variable |-> TRUE]

NoBinding == [supplied |-> {}, value |-> CHOOSE v \in ValueSpace : TRUE]

VARIABLES
    render_pc,            \* where the rendering is
    task_spec,            \* the TaskSpec rendered
    binding,              \* the binding rendered
    position,             \* the line of the template to render next
    scenario,             \* the lines rendered so far
    expansions,           \* how many mapping blocks were expanded
    render_error,         \* "" or the failure of the rendering
    engine_input          \* the scenarios handed to the engine

renderVars ==
    <<render_pc, task_spec, binding, position, scenario, expansions, render_error,
      engine_input>>

RenderInit ==
    /\ render_pc = "idle"
    /\ task_spec = TASKS[1]
    /\ binding = NoBinding
    /\ position = 1
    /\ scenario = <<>>
    /\ expansions = 0
    /\ render_error = ""
    /\ engine_input = <<>>

\* ------------------------------------------- deploy_predictor_for_metrics

\* The meta-data keys a variable of a predictor dictionary may carry.
MetaDatas ==
    {{}, {"TargetVariable"}, {"Prediction"}, {"TargetProb1"}, {"Mean"}, {"Target"},
     {"TargetVariable", "Mean"}, {"Prediction", "Mean"}, {"TargetProb2", "Mean"},
     {"Prediction", "TargetProb1"}}

VariableSpace == [meta_data : MetaDatas, used : BOOLEAN]

\* The meta-data of the dictionary, as key-value pairs.
DictionaryMetaDatas ==
    {{}, {<<"PredictorType", "Classifier">>}, {<<"PredictorType", "Regressor">>}}

DictionarySpace ==
    [meta_data : DictionaryMetaDatas, variables : SeqsUpTo(VariableSpace, MaxVariables)]

MetricsArgSpace ==
    [dictionary_file_path_or_domain : {"domain", "path", "invalid"},
     dictionary : DictionarySpace]

NoDictionary == [meta_data |-> {}, variables |-> <<>>]

\* key in meta_data, and meta_data.get_value(key)
HasKey(meta_data, key) == \E entry \in meta_data : entry[1] = key

get_value(meta_data, key) == (CHOOSE entry \in meta_data : entry[1] = key)[2]

\* key.startswith(prefix)
startswith(key, prefix) ==
    Len(key) >= Len(prefix) /\ SubSeq(key, 1, Len(prefix)) = prefix

\* The dictionary is a predictor.
is_predictor_any(dictionary) == TRUE

is_predictor(dictionary) == HasKey(dictionary.meta_data, "PredictorType")

is_classifier(dictionary) == get_value(dictionary.meta_data, "PredictorType") = "Classifier"

\* The body of the loop over the variables: whether the variable is set used.
sets_used_any_predictor(classifier, meta_data) ==
    IF "TargetVariable" \in meta_data THEN TRUE
    ELSE \/ "Prediction" \in meta_data
         \/ \E key \in meta_data : startswith(key, "TargetProb")
         \/ "Mean" \in meta_data

sets_used(classifier, meta_data) ==
    IF "TargetVariable" \in meta_data THEN TRUE
    ELSE IF classifier THEN
        \/ "Prediction" \in meta_data
        \/ \E key \in meta_data : startswith(key, "TargetProb")
    ELSE ~classifier /\ "Mean" \in meta_data

\* The object predictor_domain names: a copy of the caller's domain, or the
\* domain read from the caller's file.
predictor_domain_object_uncopied(kind) == IF kind = "domain" THEN "caller" ELSE "read"

predictor_domain_object(kind) == IF kind = "domain" THEN "copy" ELSE "read"

\* The domains whose variables a caller passes to check only the frame: one
\* variable, used or not.
FrameMetricsArgSpace ==
    [dictionary_file_path_or_domain : {"domain", "path"},
     dictionary :
         [meta_data : DictionaryMetaDatas,
          variables : {<<v>> : v \in [meta_data : {{"TargetVariable"}, {"Mean"}},
                                      used : BOOLEAN]}]]

\* The calls of deploy_coclustering that differ in the dictionary and its key.
FrameArgSpace ==
    [dictionary_file_path_or_domain : {"domain", "path"},
     dictionary_name : DictionaryNames,
     data_table_path : {<<"/", "d", "t.txt">>},
     key_list_like : {TRUE},
     key_variable_names : KeyLists,
     results_dir : {<<"/", "r2">>},
     detect_format : BOOLEAN,
     header_line : {None},
     field_separator : {None},
     output_header_line : {"True"},
     output_field_separator : {"\t"},
     build_cluster_variable : {TRUE},
     results_prefix : {""}]

\* Dictionary.use_all_variables(is_used)
use_all_variables(dictionary, is_used) ==
    [dictionary EXCEPT !.variables =
        [k \in DOMAIN dictionary.variables |->
            [dictionary.variables[k] EXCEPT !.used = is_used]]]

VARIABLES
    metrics_pc,           \* the statement of deploy_predictor_for_metrics about to run
    metrics_args,         \* the arguments of the call
    caller_domain,        \* the caller's dictionary
    predictor_object,     \* the object predictor_domain names: "caller", "copy" or "read"
    predictor_domain,     \* the dictionary of that object
    variable_index,       \* the variable the loop is at
    deploy_invocations,   \* the domains api.deploy_model was invoked with
    metrics_error         \* "" or the exception the call raised

metricsVars ==
    <<metrics_pc, metrics_args, caller_domain, predictor_object, predictor_domain,
      variable_index, deploy_invocations, metrics_error>>

MetricsInit ==
    /\ metrics_pc = "idle"
    /\ metrics_args = [dictionary_file_path_or_domain |-> "domain", dictionary |-> NoDictionary]
    /\ caller_domain = NoDictionary
    /\ predictor_object = "none"
    /\ predictor_domain = NoDictionary
    /\ variable_index = 1
    /\ deploy_invocations = <<>>
    /\ metrics_error = ""

\* ------------------------------------------------- the classifier's output

\* The kinds of target of the output-types test.
YTypes ==
    {"int", "int binary", "string", "string binary", "int as string",
     "int as string binary", "cat int", "cat string"}

\* The classes of the iris target, and the samples of it a fit sees.
IrisClasses == {0, 1, 2}

IrisSamples == SeqsUpTo(IrisClasses, MaxTargets) \ {<<>>}

\* fixtures["ys"]: what each class of the iris target is replaced by.
ys(y_type) ==
    CASE y_type = "int" -> [c \in IrisClasses |-> c]
      [] y_type = "int binary" -> [c \in IrisClasses |-> <<0, 0, 1>>[c + 1]]
      [] y_type = "string" -> [c \in IrisClasses |-> <<"se", "vi", "ve">>[c + 1]]
      [] y_type = "string binary" ->
           [c \in IrisClasses |-> <<"vi_or_se", "vi_or_se", "ve">>[c + 1]]
      [] y_type = "int as string" -> [c \in IrisClasses |-> <<"8", "9", "10">>[c + 1]]
      [] y_type = "int as string binary" ->
           [c \in IrisClasses |-> <<"89", "89", "10">>[c + 1]]
      [] y_type = "cat int" -> [c \in IrisClasses |-> c]
      [] y_type = "cat string" -> [c \in IrisClasses |-> <<"se", "vi", "ve">>[c + 1]]

\* fixtures["y_type_check"]: the target is of an integer type.
is_integer_dtype(y_type) == y_type \in {"int", "int binary", "cat int"}

\* fixtures["expected_classes"]
expected_classes_numeric(y_type) ==
    CASE y_type = "int" -> <<0, 1, 2>>
      [] y_type = "int binary" -> <<0, 1>>
      [] y_type = "string" -> <<"se", "ve", "vi">>
      [] y_type = "string binary" -> <<"ve", "vi_or_se">>
      [] y_type = "int as string" -> <<"8", "9", "10">>
      [] y_type = "int as string binary" -> <<"10", "89">>
      [] y_type = "cat int" -> <<0, 1, 2>>
      [] y_type = "cat string" -> <<"se", "ve", "vi">>

expected_classes(y_type) ==
    CASE y_type = "int" -> <<0, 1, 2>>
      [] y_type = "int binary" -> <<0, 1>>
      [] y_type = "string" -> <<"se", "ve", "vi">>
      [] y_type = "string binary" -> <<"ve", "vi_or_se">>
      [] y_type = "int as string" -> <<"10", "8", "9">>
      [] y_type = "int as string binary" -> <<"10", "89">>
      [] y_type = "cat int" -> <<0, 1, 2>>
      [] y_type = "cat string" -> <<"se", "ve", "vi">>

\* The order of strings: character by character, by character code.
Alphabet == "0123456789_abcdefghijklmnopqrstuvwxyz"

CharCode(c) == CHOOSE k \in 1..Len(Alphabet) : SubSeq(Alphabet, k, k) = c

RECURSIVE StringLess(_, _)
StringLess(a, b) ==
    IF b = "" THEN FALSE
    ELSE IF a = "" THEN TRUE
    ELSE IF SubSeq(a, 1, 1) # SubSeq(b, 1, 1)
        THEN CharCode(SubSeq(a, 1, 1)) < CharCode(SubSeq(b, 1, 1))
    ELSE StringLess(SubSeq(a, 2, Len(a)), SubSeq(b, 2, Len(b)))

Less(integer, a, b) == IF integer THEN a < b ELSE StringLess(a, b)

\* The distinct values of y in ascending order.
RECURSIVE Insert(_, _, _)
Insert(integer, sorted, value) ==
    IF sorted = <<>> THEN <<value>>
    ELSE IF value = Head(sorted) THEN sorted
    ELSE IF Less(integer, value, Head(sorted)) THEN <<value>> \o sorted
    ELSE <<Head(sorted)>> \o Insert(integer, Tail(sorted), value)

RECURSIVE SortedUnique(_, _)
SortedUnique(integer, y) ==
    IF y = <<>> THEN <<>>
    ELSE Insert(integer, SortedUnique(integer, Tail(y)), Head(y))

VARIABLES
    estimator_pc,         \* "new", "fitted" or "predicted"
    y_type,               \* the kind of target of the fit
    y,                    \* the target of the fit
    classes_,             \* KhiopsClassifier.classes_
    y_probas_shape        \* the shape of the result of predict_proba

sklearnVars == <<estimator_pc, y_type, y, classes_, y_probas_shape>>

SklearnInit ==
    /\ estimator_pc = "new"
    /\ y_type = "int"
    /\ y = <<>>
    /\ classes_ = <<>>
    /\ y_probas_shape = <<>>

otherVars == <<registryVars, renderVars, metricsVars, sklearnVars>>

OtherInit == RegistryInit /\ RenderInit /\ MetricsInit /\ SklearnInit

allVars == <<vars, otherVars>>

Init ==
    /\ OtherInit
    /\ pc = [i \in Calls |-> "idle"]
    /\ args = [i \in Calls |-> NoArgs]
    /\ results_dir = [i \in Calls |-> <<>>]
    /\ header_line = [i \in Calls |-> None]
    /\ field_separator = [i \in Calls |-> None]
    /\ tmp_dictionary_path = [i \in Calls |-> <<>>]
    /\ running = [i \in Calls |-> {}]
    /\ invocations = [i \in Calls |-> [t \in EngineTasks |-> <<>>]]
    /\ log = [i \in Calls |-> <<>>]
    /\ files = {}
    /\ writes = {}
    /\ removals = {}
    /\ result = [i \in Calls |-> <<>>]
    /\ error = [i \in Calls |-> ""]
    /\ domain_keys = DomainKeys
    /\ tmp_dictionary_key = [i \in Calls |-> <<>>]

\* --------------------------------------------------- the steps of one call

\* A caller calls deploy_coclustering with arguments of `space`.
Call(i, space) ==
    /\ pc[i] = "idle"
    /\ \E a \in space :
          /\ a.key_list_like \/ a.key_variable_names = <<>>
          /\ args' = [args EXCEPT ![i] = a]
    /\ pc' = [pc EXCEPT ![i] = "check_dictionary"]
    /\ UNCHANGED otherVars
    /\ UNCHANGED domainVars
    /\ UNCHANGED <<results_dir, header_line, field_separator, tmp_dictionary_path,
                   running, invocations, log, files, writes, removals, result, error>>

\* The exception `exc` leaves the function.
Raise(i, exc) ==
    /\ pc' = [pc EXCEPT ![i] = "raised"]
    /\ error' = [error EXCEPT ![i] = exc]

\* api.check_dictionary_file_path_or_domain, then the domain is taken or read,
\* and results_dir is disambiguated.
CheckDictionary(i) ==
    /\ pc[i] = "check_dictionary"
    /\ IF args[i].dictionary_file_path_or_domain = "invalid"
       THEN /\ Raise(i, "TypeError")
            /\ UNCHANGED results_dir
       ELSE /\ results_dir' =
                   [results_dir EXCEPT ![i] = create_unambiguous_khiops_path(args[i].results_dir)]
            /\ pc' = [pc EXCEPT ![i] = "check_key_variable_names"]
            /\ UNCHANGED error
    /\ UNCHANGED otherVars
    /\ UNCHANGED domainVars
    /\ UNCHANGED <<args, header_line, field_separator, tmp_dictionary_path, running,
                   invocations, log, files, writes, removals, result>>

\* is_list_like(key_variable_names)
CheckKeyVariableNames(i) ==
    /\ pc[i] = "check_key_variable_names"
    /\ IF ~args[i].key_list_like
       THEN Raise(i, "TypeError")
       ELSE /\ pc' = [pc EXCEPT ![i] = "resolve_format"]
            /\ UNCHANGED error
    /\ UNCHANGED otherVars
    /\ UNCHANGED domainVars
    /\ UNCHANGED <<args, results_dir, header_line, field_separator, tmp_dictionary_path,
                   running, invocations, log, files, writes, removals, result>>

\* The condition under which the format is detected.
ShouldDetectEither(a) ==
    a.detect_format /\ (a.header_line = None \/ a.field_separator = None)

ShouldDetect(a) ==
    a.detect_format /\ a.header_line = None /\ a.field_separator = None

\* The defaults taken when the format is not detected.
DefaultHeaderLine(h) == IF h = None THEN "True" ELSE h

DefaultFieldSeparator(s) == IF s = None THEN "\t" ELSE s

\* The build_cluster_variable deploy_coclustering passes to the prepare task.
build_cluster_variable_default(a) == TRUE

build_cluster_variable_passed(a) == a.build_cluster_variable

\* The format extract_keys_from_data_table is told to write the keys in.
keys_output_format_as_asked(a, input_format) ==
    <<a.output_header_line, a.output_field_separator>>

keys_output_format(a, input_format) == input_format

\* The arguments deploy_coclustering passes to an engine task.
Invocation(i, task) ==
    CASE task = "detect_data_table_format" ->
           [data_table_path |-> args[i].data_table_path,
            dictionary_name |-> args[i].dictionary_name]
      [] task = "build_multi_table_dictionary" ->
           [key |-> tmp_dictionary_key[i],
            root_dictionary_name |-> root_dictionary_name(args[i].dictionary_name),
            secondary_table_variable_name |-> table_variable_name(args[i].dictionary_name),
            output_dictionary_file_path |-> tmp_dictionary_path[i]]
      [] task = "prepare_coclustering_deployment" ->
           [dictionary_file_path |-> tmp_dictionary_path[i],
            dictionary_name |-> root_dictionary_name(args[i].dictionary_name),
            coclustering_file_path |-> CoclusteringFilePath,
            table_variable |-> table_variable_name(args[i].dictionary_name),
            deployed_variable_name |-> DeployedVariableName,
            results_dir |-> results_dir[i],
            max_preserved_information |-> 0,
            max_cells |-> 0,
            max_part_numbers |-> NoneDict,
            build_cluster_variable |-> build_cluster_variable_passed(args[i]),
            build_distance_variables |-> FALSE,
            build_frequency_variables |-> FALSE,
            variables_prefix |-> "",
            results_prefix |-> args[i].results_prefix]
      [] task = "extract_keys_from_data_table" ->
           [dictionary_file_path |-> tmp_dictionary_path[i],
            dictionary_name |-> args[i].dictionary_name,
            data_table_path |-> args[i].data_table_path,
            output_data_table_path |->
                keys_table_file_path(results_dir[i], args[i].data_table_path),
            header_line |-> header_line[i],
            field_separator |-> field_separator[i],
            output_header_line |->
                keys_output_format(args[i], <<header_line[i], field_separator[i]>>)[1],
            output_field_separator |->
                keys_output_format(args[i], <<header_line[i], field_separator[i]>>)[2]]
      [] task = "deploy_model" ->
           [dictionary_file_path |-> coclustering_dictionary_file_path(results_dir[i]),
            dictionary_name |-> root_dictionary_name(args[i].dictionary_name),
            data_table_path |->
                keys_table_file_path(results_dir[i], args[i].data_table_path),
            output_data_table_path |->
                output_data_table_path(results_dir[i], args[i].data_table_path),
            header_line |-> header_line[i],
            field_separator |-> field_separator[i],
            output_header_line |-> args[i].output_header_line,
            output_field_separator |-> args[i].output_field_separator,
            additional_data_tables |->
                additional_data_tables(args[i].dictionary_name, args[i].data_table_path)]

\* The files of the pipeline an engine task reads (the caller's own inputs,
\* the data table and the coclustering file, are taken to exist).
Reads(task, inv) ==
    CASE task = "prepare_coclustering_deployment" -> {inv.dictionary_file_path}
      [] task = "extract_keys_from_data_table" -> {inv.dictionary_file_path}
      [] task = "deploy_model" -> {inv.dictionary_file_path, inv.data_table_path}
      [] OTHER -> {}

\* The file an engine task writes.
Output(task, inv) ==
    CASE task = "build_multi_table_dictionary" -> inv.output_dictionary_file_path
      [] task = "prepare_coclustering_deployment" ->
           prepare_result_path(inv.results_dir, inv.results_prefix)
      [] OTHER -> inv.output_data_table_path

\* Detect the format once, or take the caller's values and the defaults.
ResolveFormat(i) ==
    /\ pc[i] = "resolve_format"
    /\ IF ShouldDetect(args[i])
       THEN /\ pc' = [pc EXCEPT ![i] = "detect_data_table_format"]
            /\ running' = [running EXCEPT ![i] = @ \cup {"detect_data_table_format"}]
            /\ invocations' =
                   [invocations EXCEPT ![i]["detect_data_table_format"] =
                        Append(@, Invocation(i, "detect_data_table_format"))]
            /\ log' = [log EXCEPT ![i] = Append(@, Event("detect_data_table_format", "start"))]
            /\ UNCHANGED <<header_line, field_separator>>
       ELSE /\ header_line' =
                   [header_line EXCEPT ![i] = DefaultHeaderLine(args[i].header_line)]
            /\ field_separator' =
                   [field_separator EXCEPT ![i] = DefaultFieldSeparator(args[i].field_separator)]
            /\ pc' = [pc EXCEPT ![i] = "validate_keys"]
            /\ UNCHANGED <<running, invocations, log>>
    /\ UNCHANGED otherVars
    /\ UNCHANGED domainVars
    /\ UNCHANGED <<args, results_dir, tmp_dictionary_path, files, writes, removals,
                   result, error>>

\* api.detect_data_table_format returns the detected pair.
DetectReturns(i, fmt) ==
    /\ pc[i] = "detect_data_table_format"
    /\ "detect_data_table_format" \in running[i]
    /\ header_line' = [header_line EXCEPT ![i] = fmt[1]]
    /\ field_separator' = [field_separator EXCEPT ![i] = fmt[2]]
    /\ running' = [running EXCEPT ![i] = @ \ {"detect_data_table_format"}]
    /\ log' = [log EXCEPT ![i] = Append(@, Event("detect_data_table_format", "ok"))]
    /\ pc' = [pc EXCEPT ![i] = "validate_keys"]
    /\ UNCHANGED otherVars
    /\ UNCHANGED domainVars
    /\ UNCHANGED <<args, results_dir, tmp_dictionary_path, invocations, files, writes,
                   removals, result, error>>

\* The loop over key_variable_names: the exception of the first name that is
\* not a variable of the dictionary (get_variable fails) or whose type is not
\* Categorical, "" if there is none.
RECURSIVE FirstKeyError(_, _)
FirstKeyError(dictionary, keys) ==
    IF keys = <<>> THEN ""
    ELSE IF Head(keys) \notin DOMAIN dictionary THEN "KeyError"
    ELSE IF dictionary[Head(keys)] # "Categorical" THEN "ValueError"
    ELSE FirstKeyError(dictionary, Tail(keys))

ValidateKeys(i) ==
    /\ pc[i] = "validate_keys"
    /\ LET exc == FirstKeyError(Domain[args[i].dictionary_name], args[i].key_variable_names)
       IN  IF exc # ""
           THEN /\ Raise(i, exc)
                /\ log' = [log EXCEPT ![i] =
                               @ \o <<Event("validate_keys", "start"), Event("validate_keys", "fail")>>]
           ELSE /\ pc' = [pc EXCEPT ![i] = "create_temp_file"]
                /\ log' = [log EXCEPT ![i] =
                               @ \o <<Event("validate_keys", "start"), Event("validate_keys", "ok")>>]
                /\ UNCHANGED error
    /\ UNCHANGED otherVars
    /\ UNCHANGED domainVars
    /\ UNCHANGED <<args, results_dir, header_line, field_separator, tmp_dictionary_path,
                   running, invocations, files, writes, removals, result>>

\* The runner's create_temp_file: a file of a name no existing file has.
create_temp_file(fs, prefix, suffix) ==
    {temp_file_path(prefix, k, suffix) : k \in 1..NumTokens} \ Paths(fs)

\* The object `dictionary` names: the dictionary of the caller's domain, or
\* of the domain read from the caller's file.
dictionary_object(kind) == IF kind = "domain" THEN "caller" ELSE "read"

\* dictionary.copy(): a new object.
dictionary_copy(object) == "copy"

\* The object whose key is assigned: tmp_dictionary.
key_assignment_target(tmp_dictionary, dictionary) == tmp_dictionary

\* The copy of the dictionary gets the key, and the temporary file is made.
CreateTempFile(i) ==
    /\ pc[i] = "create_temp_file"
    /\ \E path \in create_temp_file(files, "_deploy_coclustering_", ".kdic") :
          /\ tmp_dictionary_path' = [tmp_dictionary_path EXCEPT ![i] = path]
          /\ files' = Write(files, path, i, "create_temp_file")
          /\ writes' = writes \cup {[path |-> path, by |-> i, task |-> "create_temp_file"]}
    /\ LET dictionary == dictionary_object(args[i].dictionary_file_path_or_domain)
           tmp_dictionary == dictionary_copy(dictionary)
           assigned == key_assignment_target(tmp_dictionary, dictionary)
       IN  /\ tmp_dictionary_key' =
                  [tmp_dictionary_key EXCEPT ![i] =
                      IF assigned = tmp_dictionary \/ tmp_dictionary = dictionary
                      THEN args[i].key_variable_names
                      ELSE domain_keys[args[i].dictionary_name]]
           /\ domain_keys' =
                  IF assigned = "caller"
                  THEN [domain_keys EXCEPT ![args[i].dictionary_name] =
                            args[i].key_variable_names]
                  ELSE domain_keys
    /\ pc' = [pc EXCEPT ![i] = Chain[1]]
    /\ UNCHANGED otherVars
    /\ UNCHANGED <<args, results_dir, header_line, field_separator, running, invocations,
                   log, removals, result, error>>

\* A task of the main chain is invoked: the call blocks until it ends.
StartTask(i, task) ==
    /\ pc[i] = task
    /\ task \notin running[i]
    /\ running' = [running EXCEPT ![i] = @ \cup {task}]
    /\ invocations' = [invocations EXCEPT ![i][task] = Append(@, Invocation(i, task))]
    /\ log' = [log EXCEPT ![i] = Append(@, Event(task, "start"))]
    /\ UNCHANGED otherVars
    /\ UNCHANGED domainVars
    /\ UNCHANGED <<pc, args, results_dir, header_line, field_separator,
                   tmp_dictionary_path, files, writes, removals, result, error>>

\* The task ends well: its output is on disk and the next statement runs.
TaskReturns(i, task) ==
    /\ pc[i] = task
    /\ task \in running[i]
    /\ LET inv == invocations[i][task][Len(invocations[i][task])]
       IN  /\ Reads(task, inv) \subseteq Paths(files)
           /\ files' = Write(files, Output(task, inv), i, task)
           /\ writes' = writes \cup {[path |-> Output(task, inv), by |-> i, task |-> task]}
    /\ running' = [running EXCEPT ![i] = @ \ {task}]
    /\ log' = [log EXCEPT ![i] = Append(@, Event(task, "ok"))]
    /\ pc' = [pc EXCEPT ![i] = NextStep(task)]
    /\ UNCHANGED otherVars
    /\ UNCHANGED domainVars
    /\ UNCHANGED <<args, results_dir, header_line, field_separator, tmp_dictionary_path,
                   invocations, removals, result, error>>

\* The file system an exception leaves behind: deploy_coclustering has no
\* handler and no cleanup, so it is the file system as it was.
FilesRolledBack(fs, i) == {f \in fs : f.by # i}

FilesOnFailure(fs, i) == fs

\* The task fails (a non-zero exit code, a fatal entry in its log) and the
\* api call raises; a failed task is taken to have written nothing.
TaskRaises(i, task) ==
    /\ pc[i] = task
    /\ task \in running[i]
    /\ running' = [running EXCEPT ![i] = @ \ {task}]
    /\ log' = [log EXCEPT ![i] = Append(@, Event(task, "fail"))]
    /\ pc' = [pc EXCEPT ![i] = AfterFailure(task)]
    /\ error' = [error EXCEPT ![i] = "EngineError"]
    /\ files' = FilesOnFailure(files, i)
    /\ UNCHANGED otherVars
    /\ UNCHANGED domainVars
    /\ UNCHANGED <<args, results_dir, header_line, field_separator, tmp_dictionary_path,
                   invocations, writes, removals, result>>

\* The file system a returning call leaves behind: nothing is removed.
FilesOnReturn(fs, i) == fs

\* return output_data_table_path, coclustering_dictionary_file_path
Return(i) ==
    /\ pc[i] = "return"
    /\ result' = [result EXCEPT ![i] =
                      <<output_data_table_path(results_dir[i], args[i].data_table_path),
                        coclustering_dictionary_file_path(results_dir[i])>>]
    /\ files' = FilesOnReturn(files, i)
    /\ pc' = [pc EXCEPT ![i] = "done"]
    /\ UNCHANGED otherVars
    /\ UNCHANGED domainVars
    /\ UNCHANGED <<args, results_dir, header_line, field_separator, tmp_dictionary_path,
                   running, invocations, log, writes, removals, error>>

Step(i) ==
    \/ CheckDictionary(i)
    \/ CheckKeyVariableNames(i)
    \/ ResolveFormat(i)
    \/ \E fmt \in DetectedFormats : DetectReturns(i, fmt)
    \/ ValidateKeys(i)
    \/ CreateTempFile(i)
    \/ \E task \in ChainTasks : StartTask(i, task)
    \/ \E task \in ChainTasks : TaskReturns(i, task)
    \/ \E task \in EngineTasks : TaskRaises(i, task)
    \/ Return(i)

\* One call, with every kind of argument.
Next ==
    \/ Call(1, ArgSpace)
    \/ \E i \in Calls : Step(i)

Spec == Init /\ [][Next]_allVars

\* One call, with every kind of format argument.
NextFormat ==
    \/ Call(1, FormatArgSpace)
    \/ \E i \in Calls : Step(i)

SpecFormat == Init /\ [][NextFormat]_allVars

\* Two calls side by side.
NextPair ==
    \/ \E i \in Calls : Call(i, PairArgSpace)
    \/ \E i \in Calls : Step(i)

SpecPair == Init /\ [][NextPair]_allVars

\* ------------------------------------------------- the registry's operations

\* register(TaskSpec)
Register(spec) ==
    /\ spec \notin registry
    /\ registry' = registry \cup {spec}
    /\ UNCHANGED <<vars, sklearnVars, renderVars, metricsVars, resolution>>

\* resolve(name, installed_version)
Resolve(name, installed_version) ==
    /\ resolution' =
           <<[name |-> name, installed_version |-> installed_version,
              registered |-> registry,
              answer |-> resolve(registry, name, installed_version)]>>
    /\ UNCHANGED <<vars, sklearnVars, renderVars, metricsVars, registry>>

NextRegistry ==
    \/ \E spec \in RegisterSpace : Register(spec)
    \/ \E name \in {prepare_name, "deploy_model"} :
          \E v \in InstalledVersions : Resolve(name, v)

SpecRegistry == Init /\ [][NextRegistry]_allVars

\* ------------------------------------------------- the renderer's operations

\* render(TaskSpec, binding) is called.
Render ==
    /\ render_pc = "idle"
    /\ \E k \in DOMAIN TASKS : \E value \in ValueSpace : \E omitted \in SUBSET Omittable :
          /\ \A name \in omitted : value[name] = Unread[name]
          /\ task_spec' = TASKS[k]
          /\ binding' = [supplied |-> DOMAIN value \ omitted, value |-> value]
    /\ render_pc' = "check_required"
    /\ UNCHANGED <<vars, sklearnVars, registryVars, metricsVars, position, scenario, expansions, render_error,
                   engine_input>>

\* The flagged names are checked before any line is rendered.
CheckRequired ==
    /\ render_pc = "check_required"
    /\ IF \E k \in DOMAIN task_spec.non_empty :
              IsMissing(task_spec, binding, task_spec.non_empty[k])
       THEN /\ render_error' = "MissingRequiredParameter"
            /\ render_pc' = "failed"
       ELSE /\ render_pc' = "lines"
            /\ UNCHANGED render_error
    /\ UNCHANGED <<vars, sklearnVars, registryVars, metricsVars, task_spec, binding, position, scenario, expansions,
                   engine_input>>

\* A literal line is copied.
RenderLiteral ==
    /\ render_pc = "lines"
    /\ position <= Len(task_spec.template)
    /\ task_spec.template[position].token = ""
    /\ scenario' = Append(scenario, task_spec.template[position].pre)
    /\ position' = position + 1
    /\ UNCHANGED <<vars, sklearnVars, registryVars, metricsVars, render_pc, task_spec, binding, expansions,
                   render_error, engine_input>>

\* The token of a line is replaced by the formatted value.
RenderScalar ==
    /\ render_pc = "lines"
    /\ position <= Len(task_spec.template)
    /\ task_spec.template[position].token \notin BlockMarkers \cup {""}
    /\ scenario' = Append(scenario, render_scalar(task_spec, binding, task_spec.template[position]))
    /\ position' = position + 1
    /\ UNCHANGED <<vars, sklearnVars, registryVars, metricsVars, render_pc, task_spec, binding, expansions,
                   render_error, engine_input>>

\* The region from the block-start marker to the block-end marker is replaced.
RenderBlock ==
    /\ render_pc = "lines"
    /\ position <= Len(task_spec.template)
    /\ task_spec.template[position].token = "DICT"
    /\ scenario' = scenario \o render_block(task_spec, binding, position)
    /\ expansions' = expansions + 1
    /\ position' = BlockEnd(task_spec.template, position) + 1
    /\ UNCHANGED <<vars, sklearnVars, registryVars, metricsVars, render_pc, task_spec, binding, render_error,
                   engine_input>>

\* The template is exhausted: the scenario is complete.
RenderEnds ==
    /\ render_pc = "lines"
    /\ position > Len(task_spec.template)
    /\ render_pc' = "rendered"
    /\ UNCHANGED <<vars, sklearnVars, registryVars, metricsVars, task_spec, binding, position, scenario, expansions,
                   render_error, engine_input>>

\* The engine is run on the rendered scenario.
RunScenario ==
    /\ render_pc = "rendered"
    /\ engine_input' = Append(engine_input, scenario)
    /\ render_pc' = "done"
    /\ UNCHANGED <<vars, sklearnVars, registryVars, metricsVars, task_spec, binding, position, scenario, expansions,
                   render_error>>

NextRender ==
    \/ Render
    \/ CheckRequired
    \/ RenderLiteral
    \/ RenderScalar
    \/ RenderBlock
    \/ RenderEnds
    \/ RunScenario

SpecRender == Init /\ [][NextRender]_allVars

\* ------------------------------ the steps of deploy_predictor_for_metrics

\* A caller calls deploy_predictor_for_metrics.
CallMetrics(space) ==
    /\ metrics_pc = "idle"
    /\ \E a \in space :
          /\ metrics_args' = a
          /\ caller_domain' = a.dictionary
    /\ metrics_pc' = "check_dictionary"
    /\ UNCHANGED <<vars, sklearnVars, registryVars, renderVars, predictor_object,
                   predictor_domain, variable_index, deploy_invocations, metrics_error>>

\* api.check_dictionary_file_path_or_domain, then the domain is copied or read.
LoadDomain ==
    /\ metrics_pc = "check_dictionary"
    /\ IF metrics_args.dictionary_file_path_or_domain = "invalid"
       THEN /\ metrics_pc' = "raised"
            /\ metrics_error' = "TypeError"
            /\ UNCHANGED <<predictor_object, predictor_domain>>
       ELSE /\ predictor_object' =
                   predictor_domain_object(metrics_args.dictionary_file_path_or_domain)
            /\ predictor_domain' = caller_domain
            /\ metrics_pc' = "check_predictor"
            /\ UNCHANGED metrics_error
    /\ UNCHANGED <<vars, sklearnVars, registryVars, renderVars, metrics_args, caller_domain,
                   variable_index, deploy_invocations>>

\* if "PredictorType" not in predictor_dictionary.meta_data: raise ValueError
CheckPredictor ==
    /\ metrics_pc = "check_predictor"
    /\ IF ~is_predictor(predictor_domain)
       THEN /\ metrics_pc' = "raised"
            /\ metrics_error' = "ValueError"
       ELSE /\ metrics_pc' = "use_all_variables"
            /\ UNCHANGED metrics_error
    /\ UNCHANGED <<vars, sklearnVars, registryVars, renderVars, metrics_args, caller_domain,
                   predictor_object, predictor_domain, variable_index, deploy_invocations>>

\* predictor_dictionary.use_all_variables(False)
UseAllVariables ==
    /\ metrics_pc = "use_all_variables"
    /\ predictor_domain' = use_all_variables(predictor_domain, FALSE)
    /\ caller_domain' = IF predictor_object = "caller" THEN predictor_domain' ELSE caller_domain
    /\ variable_index' = 1
    /\ metrics_pc' = "variables"
    /\ UNCHANGED <<vars, sklearnVars, registryVars, renderVars, metrics_args, predictor_object,
                   deploy_invocations, metrics_error>>

\* One iteration of the loop over predictor_dictionary.variables.
MarkVariable ==
    /\ metrics_pc = "variables"
    /\ variable_index <= Len(predictor_domain.variables)
    /\ predictor_domain' =
           [predictor_domain EXCEPT !.variables[variable_index].used =
               IF sets_used(is_classifier(predictor_domain),
                            predictor_domain.variables[variable_index].meta_data)
               THEN TRUE ELSE @]
    /\ caller_domain' = IF predictor_object = "caller" THEN predictor_domain' ELSE caller_domain
    /\ variable_index' = variable_index + 1
    /\ UNCHANGED <<vars, sklearnVars, registryVars, renderVars, metrics_pc, metrics_args,
                   predictor_object, deploy_invocations, metrics_error>>

\* api.deploy_model is invoked with predictor_domain.
DeployScores ==
    /\ metrics_pc = "variables"
    /\ variable_index > Len(predictor_domain.variables)
    /\ deploy_invocations' = Append(deploy_invocations, predictor_domain)
    /\ metrics_pc' = "deploy_model"
    /\ UNCHANGED <<vars, sklearnVars, registryVars, renderVars, metrics_args, caller_domain,
                   predictor_object, predictor_domain, variable_index, metrics_error>>

\* api.deploy_model returns, or raises.
DeployScoresEnds(ok) ==
    /\ metrics_pc = "deploy_model"
    /\ metrics_pc' = IF ok THEN "done" ELSE "raised"
    /\ metrics_error' = IF ok THEN "" ELSE "EngineError"
    /\ UNCHANGED <<vars, sklearnVars, registryVars, renderVars, metrics_args, caller_domain,
                   predictor_object, predictor_domain, variable_index, deploy_invocations>>

NextMetrics ==
    \/ CallMetrics(MetricsArgSpace)
    \/ LoadDomain
    \/ CheckPredictor
    \/ UseAllVariables
    \/ MarkVariable
    \/ DeployScores
    \/ \E ok \in BOOLEAN : DeployScoresEnds(ok)

SpecMetrics == Init /\ [][NextMetrics]_allVars

\* A caller that holds one domain and calls the two helpers one after the
\* other: deploy_predictor_for_metrics, then deploy_coclustering once the
\* first call has returned or raised.
CallAfterMetrics(i, space) ==
    /\ metrics_pc \in {"done", "raised"}
    /\ Call(i, space)

NextHelpers ==
    \/ CallMetrics(FrameMetricsArgSpace)
    \/ LoadDomain
    \/ CheckPredictor
    \/ UseAllVariables
    \/ MarkVariable
    \/ DeployScores
    \/ \E ok \in BOOLEAN : DeployScoresEnds(ok)
    \/ CallAfterMetrics(1, FrameArgSpace)
    \/ \E i \in Calls : Step(i)

SpecHelpers == Init /\ [][NextHelpers]_allVars

\* ------------------------------------------------- the classifier's operations

\* khc.fit(X, y)
Fit ==
    /\ estimator_pc = "new"
    /\ \E type \in YTypes : \E sample \in IrisSamples :
          /\ y_type' = type
          /\ y' = [k \in DOMAIN sample |-> ys(type)[sample[k]]]
          /\ classes_' =
                 SortedUnique(is_integer_dtype(type),
                              [k \in DOMAIN sample |-> ys(type)[sample[k]]])
    /\ estimator_pc' = "fitted"
    /\ UNCHANGED <<vars, registryVars, renderVars, metricsVars, y_probas_shape>>

\* khc.predict_proba(X)
PredictProba ==
    /\ estimator_pc = "fitted"
    /\ y_probas_shape' = <<Len(y), Len(classes_)>>
    /\ estimator_pc' = "predicted"
    /\ UNCHANGED <<vars, registryVars, renderVars, metricsVars, y_type, y, classes_>>

NextSklearn ==
    \/ Fit
    \/ PredictProba

SpecSklearn == Init /\ [][NextSklearn]_allVars

\* ----------------------------------------------------------------- claims

Called(i) == pc[i] # "idle"

Ended(i) == pc[i] \in {"done", "raised"}

EngineInvocationCount(i) ==
    Len(invocations[i]["detect_data_table_format"])
    + Len(invocations[i]["build_multi_table_dictionary"])
    + Len(invocations[i]["prepare_coclustering_deployment"])
    + Len(invocations[i]["extract_keys_from_data_table"])
    + Len(invocations[i]["deploy_model"])

\* Some name of key_variable_names is no variable of the dictionary, or is a
\* variable whose type is not Categorical.
InvalidKeys(a) ==
    /\ a.key_list_like
    /\ \E k \in DOMAIN a.key_variable_names :
          \/ a.key_variable_names[k] \notin DOMAIN Domain[a.dictionary_name]
          \/ Domain[a.dictionary_name][a.key_variable_names[k]] # "Categorical"

\* C1: a call whose key_variable_names holds a name that is absent from the
\* dictionary or is not Categorical never returns, and no engine task
\* (format detection included) is ever invoked by it, whatever detect_format,
\* header_line and field_separator are.
C1_InvalidKeysNoInvocation ==
    \A i \in Calls :
        (Called(i) /\ InvalidKeys(args[i])) =>
            /\ pc[i] # "done"
            /\ EngineInvocationCount(i) = 0

FailedAt(i, k) == log[i][k].ev = "fail" /\ log[i][k].step \in ChainTasks

\* C2: once a step of the main chain has failed, its failure is the last
\* event of the call: no later step is started, the failed step was invoked
\* once and is not invoked again, and the call has ended with an error and
\* without a result.
C2_FailureAborts ==
    \A i \in Calls : \A k \in DOMAIN log[i] :
        FailedAt(i, k) =>
            /\ k = Len(log[i])
            /\ Len(invocations[i][log[i][k].step]) = 1
            /\ running[i] = {}
            /\ pc[i] = "raised"
            /\ error[i] # ""
            /\ result[i] = <<>>

\* C2's case: the extract step failed after two steps had gone well.
C2_Witness ==
    \E i \in Calls :
        /\ pc[i] = "raised"
        /\ Len(log[i]) > 0
        /\ log[i][Len(log[i])] = Event("extract_keys_from_data_table", "fail")

\* The events of a call that runs the whole chain.
CanonicalLog ==
    <<Event("validate_keys", "start"), Event("validate_keys", "ok"),
      Event("build_multi_table_dictionary", "start"), Event("build_multi_table_dictionary", "ok"),
      Event("prepare_coclustering_deployment", "start"), Event("prepare_coclustering_deployment", "ok"),
      Event("extract_keys_from_data_table", "start"), Event("extract_keys_from_data_table", "ok"),
      Event("deploy_model", "start"), Event("deploy_model", "ok")>>

IsChainEvent(e) == e.step # "detect_data_table_format"

ChainLog(i) == SelectSeq(log[i], IsChainEvent)

\* C3: the events of the steps of a call are a prefix of: key validation,
\* build_multi_table_dictionary, prepare_coclustering_deployment,
\* extract_keys_from_data_table, deploy_model, each started once and ended
\* before the next starts (only the last event may be a failure); at most one
\* step is in progress, and it is the one the last event started.
C3_StepOrder ==
    \A i \in Calls :
        LET l == ChainLog(i)
        IN  /\ Len(l) <= Len(CanonicalLog)
            /\ \A k \in DOMAIN l :
                  /\ l[k].step = CanonicalLog[k].step
                  /\ \/ l[k].ev = CanonicalLog[k].ev
                     \/ l[k].ev = "fail" /\ CanonicalLog[k].ev = "ok" /\ k = Len(l)
            /\ Cardinality(running[i]) <= 1
            /\ \A t \in running[i] \cap ChainTasks :
                  Len(l) > 0 /\ l[Len(l)] = Event(t, "start")

\* C3's case: a call ran all five steps and returned.
C3_Witness ==
    \E i \in Calls : pc[i] = "done" /\ ChainLog(i) = CanonicalLog

IsTemporary(w) ==
    w.task \in {"create_temp_file", "build_multi_table_dictionary",
                "extract_keys_from_data_table"}

\* C4 as stated: no path of a temporary artifact (the temporary dictionary,
\* the keys-only extract) is written by two different calls.
C4_NoSharedTemporaryPath ==
    \A w1, w2 \in writes :
        (IsTemporary(w1) /\ IsTemporary(w2) /\ w1.path = w2.path) => w1.by = w2.by

\* C4, amended: two different calls never write the same temporary
\* dictionary, and they write the same keys-only extract only when they have
\* the same results directory (after disambiguation) and the same data table
\* file name.
C4_SharedOnlyKeysOfSameDirAndName ==
    \A w1, w2 \in writes :
        (IsTemporary(w1) /\ IsTemporary(w2) /\ w1.path = w2.path /\ w1.by # w2.by) =>
            /\ w1.task = "extract_keys_from_data_table"
            /\ w2.task = "extract_keys_from_data_table"
            /\ results_dir[w1.by] = results_dir[w2.by]
            /\ basename(args[w1.by].data_table_path) = basename(args[w2.by].data_table_path)

\* C4's case: two calls given different spellings of one results directory
\* and two tables of one file name have both written their temporary
\* dictionary and their keys-only extract.
C4_Witness ==
    /\ args[1].results_dir # args[2].results_dir
    /\ args[1].data_table_path # args[2].data_table_path
    /\ tmp_dictionary_path[1] # tmp_dictionary_path[2]
    /\ \A i \in Calls :
          /\ [path |-> tmp_dictionary_path[i], by |-> i,
              task |-> "build_multi_table_dictionary"] \in writes
          /\ [path |-> keys_table_file_path(results_dir[1], args[1].data_table_path), by |-> i,
              task |-> "extract_keys_from_data_table"] \in writes

IsUnder(path, dir) == Len(path) > Len(dir) /\ SubSeq(path, 1, Len(dir)) = dir

\* The paths under its results directory a call has written.
Generated(i) == {w.path : w \in {x \in writes : x.by = i /\ IsUnder(x.path, results_dir[i])}}

\* C5: a call that has returned has written, under its results directory,
\* exactly Keys<name>, Deployed<name> and Coclustering.kdic, all direct
\* children of it, and has returned (Deployed<name>, Coclustering.kdic).
C5_ArtifactsAndResult ==
    \A i \in Calls :
        pc[i] = "done" =>
            LET name == args[i].data_table_path[Len(args[i].data_table_path)]
            IN  /\ Generated(i) =
                       {Append(results_dir[i], "Keys" \o name),
                        Append(results_dir[i], "Deployed" \o name),
                        Append(results_dir[i], "Coclustering.kdic")}
                /\ result[i] =
                       <<Append(results_dir[i], "Deployed" \o name),
                         Append(results_dir[i], "Coclustering.kdic")>>

\* C6: every deploy_model invocation of a call takes as its input table the
\* path the one extract_keys_from_data_table invocation of that call was
\* given to write and has written, and takes one additional table, the
\* caller's data_table_path, under the data path made of the root dictionary
\* name and table variable name that build_multi_table_dictionary and
\* prepare_coclustering_deployment were given: "CC_" and "Table_" before
\* dictionary_name.
C6_DeployInputs ==
    \A i \in Calls : \A k \in DOMAIN invocations[i]["deploy_model"] :
        LET deploy == invocations[i]["deploy_model"][k]
            extracts == invocations[i]["extract_keys_from_data_table"]
            builds == invocations[i]["build_multi_table_dictionary"]
            prepares == invocations[i]["prepare_coclustering_deployment"]
        IN  /\ Len(extracts) = 1 /\ Len(builds) = 1 /\ Len(prepares) = 1
            /\ deploy.data_table_path = extracts[1].output_data_table_path
            /\ [path |-> deploy.data_table_path, by |-> i,
                task |-> "extract_keys_from_data_table"] \in writes
            /\ builds[1].root_dictionary_name = "CC_" \o args[i].dictionary_name
            /\ builds[1].secondary_table_variable_name = "Table_" \o args[i].dictionary_name
            /\ prepares[1].dictionary_name = builds[1].root_dictionary_name
            /\ prepares[1].table_variable = builds[1].secondary_table_variable_name
            /\ deploy.additional_data_tables =
                   {<<<<builds[1].root_dictionary_name, builds[1].secondary_table_variable_name>>,
                      args[i].data_table_path>>}

\* C6's case: deploy_model has been invoked on dictionary B.
C6_Witness ==
    \E i \in Calls :
        /\ Len(invocations[i]["deploy_model"]) = 1
        /\ args[i].dictionary_name = "B"

\* The call has passed the checks of its arguments' types and has resolved
\* the format, or is detecting it.
PastFormatResolution(i) ==
    /\ pc[i] \notin {"idle", "check_dictionary", "check_key_variable_names", "resolve_format"}
    /\ error[i] # "TypeError"

Detections(i) == Len(invocations[i]["detect_data_table_format"])

DetectionFailed(i) ==
    \E k \in DOMAIN log[i] : log[i][k] = Event("detect_data_table_format", "fail")

\* C7: the format is detected at most once per call and before any step of
\* the main chain; it is detected only if detect_format is true and the caller
\* gave neither header_line nor field_separator, and every call that gets to
\* the format resolution with such arguments detects it; a value the caller
\* gave is the value used; without detection an unset header_line is True and
\* an unset field_separator is tab.
C7_FormatResolution ==
    \A i \in Calls :
        LET wanted == /\ args[i].detect_format
                      /\ args[i].header_line = None
                      /\ args[i].field_separator = None
            resolved == /\ PastFormatResolution(i)
                        /\ pc[i] # "detect_data_table_format"
                        /\ ~DetectionFailed(i)
        IN  /\ Detections(i) <= 1
            /\ Detections(i) = 1 => wanted
            /\ PastFormatResolution(i) => (Detections(i) = 1 <=> wanted)
            /\ \A k \in DOMAIN log[i] :
                  log[i][k].step = "detect_data_table_format" =>
                      \A j \in 1..k : log[i][j].step = "detect_data_table_format"
            /\ (resolved /\ args[i].header_line # None) =>
                  header_line[i] = args[i].header_line
            /\ (resolved /\ args[i].field_separator # None) =>
                  field_separator[i] = args[i].field_separator
            /\ (resolved /\ Detections(i) = 0 /\ args[i].header_line = None) =>
                  header_line[i] = "True"
            /\ (resolved /\ Detections(i) = 0 /\ args[i].field_separator = None) =>
                  field_separator[i] = "\t"

\* C7's case: a call with detect_format and a header_line of its own has
\* returned without a detection, its field separator the tab.
C7_Witness ==
    \E i \in Calls :
        /\ pc[i] = "done"
        /\ args[i].detect_format
        /\ args[i].header_line = "False"
        /\ args[i].field_separator = None
        /\ Detections(i) = 0
        /\ header_line[i] = "False"
        /\ field_separator[i] = "\t"

\* C8: the step in which a call raises removes and rewrites none of the files
\* the call has written, and attempts no deletion.
C8_FailureLeavesArtifacts ==
    [][\A i \in Calls :
          (pc[i] # "raised" /\ pc'[i] = "raised") =>
              /\ \A f \in files : f.by = i => f \in files'
              /\ removals' = removals]_vars

\* C8's case: deploy_model failed, and the temporary dictionary, the
\* deployment dictionary and the keys-only extract of the call are on disk.
C8_Witness ==
    \E i \in Calls :
        /\ pc[i] = "raised"
        /\ Len(log[i]) > 0
        /\ log[i][Len(log[i])] = Event("deploy_model", "fail")
        /\ {f.task : f \in {g \in files : g.by = i}} =
               {"build_multi_table_dictionary", "prepare_coclustering_deployment",
                "extract_keys_from_data_table"}

\* C9: a call ended by a TypeError (the type of
\* dictionary_file_path_or_domain, key_variable_names not list-like) or by
\* the ValueError of a key variable that is not Categorical has invoked no
\* engine task.
C9_ValidationBeforeEngine ==
    \A i \in Calls :
        error[i] \in {"TypeError", "ValueError"} => EngineInvocationCount(i) = 0

\* C10: when a call has ended, in whatever way, the deletion of the temporary
\* dictionary file it created has been attempted.
C10_TemporaryDictionaryRemoved ==
    \A i \in Calls :
        (Ended(i) /\ tmp_dictionary_path[i] # <<>>) =>
            [path |-> tmp_dictionary_path[i], by |-> i] \in removals

\* 9.0 <= v for a version v of two segments, as numbers.
AtLeastNinePointZero(v) ==
    LET seg == ParseVersion(v) IN seg[1] > 9 \/ (seg[1] = 9 /\ seg[2] >= 0)

\* The numeric segments of v are at most those of w, for two-segment versions.
NoLater(v, w) ==
    LET a == ParseVersion(v)
        b == ParseVersion(w)
    IN  a[1] < b[1] \/ (a[1] = b[1] /\ a[2] <= b[2])

\* C11: resolve answers with a registered spec of the name asked whose
\* minimum version is at most the installed version, as numbers segment by
\* segment, and at least that of every other such spec; it answers
\* UnsupportedVersion exactly when no spec of the name has a minimum version
\* at most the installed one; and while the 9.0 spec of TASKS is the only one
\* of prepare_coclustering_deployment, that task resolves for every installed
\* version from 9.0 on and is unsupported for every earlier one.
C11_Resolve ==
    \A k \in DOMAIN resolution :
        LET r == resolution[k]
            fit == {t \in r.registered :
                       t.name = r.name /\ NoLater(t.min_version, r.installed_version)}
        IN  /\ r.answer.outcome = "ok" =>
                  /\ Len(r.answer.spec) = 1
                  /\ r.answer.spec[1] \in fit
                  /\ \A t \in fit : NoLater(t.min_version, r.answer.spec[1].min_version)
            /\ r.answer.outcome = "UnsupportedVersion" <=> fit = {}
            /\ (r.name = "prepare_coclustering_deployment"
                /\ Cardinality({t \in r.registered : t.name = r.name}) = 1
                /\ \E t \in r.registered : t.name = r.name /\ t.id = 0) =>
                  /\ AtLeastNinePointZero(r.installed_version) =>
                        /\ r.answer.outcome = "ok"
                        /\ r.answer.spec[1].min_version = "9.0"
                  /\ ~AtLeastNinePointZero(r.installed_version) =>
                        r.answer.outcome = "UnsupportedVersion"

\* C11's case: with specs of 8.0, 9.0 and 10.0 registered, the installed
\* version 9.5 resolved to the 9.0 spec.
C11_Witness ==
    \E k \in DOMAIN resolution :
        /\ resolution[k].name = "prepare_coclustering_deployment"
        /\ resolution[k].installed_version = "9.5"
        /\ {t.min_version : t \in {u \in resolution[k].registered : u.name = resolution[k].name}}
               = {"8.0", "9.0", "10.0"}
        /\ resolution[k].answer.outcome = "ok"
        /\ resolution[k].answer.spec[1].min_version = "9.0"

\* The tokens of a template.
TemplateTokens(template) == {template[k].token : k \in DOMAIN template} \ {""}

\* C12: every token of the template of prepare_coclustering_deployment other
\* than the two block markers is the name of a required or an optional
\* parameter, so every token the renderer comes to substitute is declared.
C12_TokensDeclared ==
    /\ \A k \in DOMAIN TASKS :
          TemplateTokens(TASKS[k].template) \ {"DICT", "END_DICT"}
              \subseteq ParameterNames(TASKS[k].required) \cup ParameterNames(TASKS[k].optional)
    /\ (render_pc = "lines" /\ position <= Len(task_spec.template)) =>
          \/ task_spec.template[position].token \in {"", "DICT", "END_DICT"}
          \/ \E j \in DOMAIN Parameters(task_spec) :
                Parameters(task_spec)[j].name = task_spec.template[position].token

\* C12's case: the renderer is at the last token of the template and has
\* substituted the tokens before it.
C12_Witness ==
    /\ render_pc = "lines"
    /\ position <= Len(task_spec.template)
    /\ task_spec.template[position].token = "results_prefix"
    /\ scenario[Len(scenario)] = "AnalysisResults.ResultFilesDirectory /r"

\* C13: in the spec of prepare_coclustering_deployment, the one rendered, no name is declared
\* twice, in one list or across the required and the optional list, and the
\* names that must not be empty, dictionary_file_path, coclustering_file_path
\* and results_dir, are declared parameters.
C13_ParameterLists ==
    LET required == ParameterNames(task_spec.required)
        optional == ParameterNames(task_spec.optional)
    IN  /\ task_spec \in {TASKS[k] : k \in DOMAIN TASKS}
        /\ required \cap optional = {}
        /\ Cardinality(required) = Len(task_spec.required)
        /\ Cardinality(optional) = Len(task_spec.optional)
        /\ {task_spec.non_empty[j] : j \in DOMAIN task_spec.non_empty}
               = {"dictionary_file_path", "coclustering_file_path", "results_dir"}
        /\ {"dictionary_file_path", "coclustering_file_path", "results_dir"}
               \subseteq required \cup optional

\* C13's case: the flagged names were looked up in the parameter lists and
\* all resolved to a value.
C13_Witness ==
    /\ render_pc = "lines"
    /\ position = 1
    /\ \A k \in DOMAIN task_spec.non_empty : task_spec.non_empty[k] \in binding.supplied

\* The binding omits one of the three flagged parameters or gives it as "".
FlaggedMissing ==
    \E name \in {"dictionary_file_path", "coclustering_file_path", "results_dir"} :
        name \notin binding.supplied \/ binding.value[name] = ""

\* C14: a rendering whose binding omits dictionary_file_path,
\* coclustering_file_path or results_dir, or gives one of them empty, fails
\* with MissingRequiredParameter once the check is made: no line is rendered,
\* no mapping block is expanded and no scenario reaches the engine.
C14_MissingRequired ==
    (render_pc \notin {"idle", "check_required"} /\ FlaggedMissing) =>
        /\ render_pc = "failed"
        /\ render_error = "MissingRequiredParameter"
        /\ scenario = <<>>
        /\ expansions = 0
        /\ engine_input = <<>>

\* C14's case: results_dir was omitted, with a mapping of two entries to
\* expand, and the rendering failed.
C14_Witness ==
    /\ render_pc = "failed"
    /\ "results_dir" \notin binding.supplied
    /\ "max_part_numbers" \in binding.supplied
    /\ Len(binding.value.max_part_numbers.items) = 2

\* The line of the block-start marker, and the template line that the j-th
\* line outside the block is.
BlockStart(template) == CHOOSE k \in DOMAIN template : template[k].token = "DICT"

Outside(template, j) ==
    IF j < BlockStart(template) THEN j
    ELSE j + (BlockEnd(template, BlockStart(template)) - BlockStart(template) + 1)

LinesOutside(template) ==
    Len(template) - (BlockEnd(template, BlockStart(template)) - BlockStart(template) + 1)

Rendered == render_pc \in {"rendered", "done"}

MappingEmpty ==
    \/ "max_part_numbers" \notin binding.supplied
    \/ binding.value.max_part_numbers.is_none
    \/ binding.value.max_part_numbers.items = <<>>

\* C15: with max_part_numbers omitted, None or empty, the rendered scenario
\* has no line of the block (neither the List.Key nor the MaxPartNumber line)
\* and is exactly the lines outside the block, the literal ones as they are
\* in the template and in its order.
C15_EmptyMappingCollapses ==
    (Rendered /\ MappingEmpty) =>
        /\ \A j \in DOMAIN scenario :
              /\ scenario[j] # "PostProcessingSpec.PostProcessedAttributes.List.Key"
              /\ scenario[j] # "PostProcessingSpec.PostProcessedAttributes.MaxPartNumber"
        /\ Len(scenario) = LinesOutside(task_spec.template)
        /\ \A j \in DOMAIN scenario :
              LET line == task_spec.template[Outside(task_spec.template, j)]
              IN  line.token = "" => scenario[j] = line.pre

\* C15's case: an empty mapping was given and the scenario was rendered.
C15_Witness ==
    /\ Rendered
    /\ "max_part_numbers" \in binding.supplied
    /\ ~binding.value.max_part_numbers.is_none
    /\ binding.value.max_part_numbers.items = <<>>

\* How many lines of the scenario are the text.
Occurrences(text) == Cardinality({j \in DOMAIN scenario : scenario[j] = text})

PrepareBinding(inv) ==
    [supplied |-> DOMAIN inv,
     value |-> [inv EXCEPT !.dictionary_file_path = PathText(@),
                           !.coclustering_file_path = PathText(@),
                           !.results_dir = PathText(@)]]

\* The template line the j-th line of a scenario without mapping entries is.
IsPrefixOf(text, line) == Len(text) <= Len(line) /\ SubSeq(line, 1, Len(text)) = text

\* C17: every prepare scenario deploy_coclustering has rendered keeps, line
\* by line, the text before each token of the template, and holds the line
\* "DeploymentSpec.BuildPredictedClusterAttribute true" and not the line
\* "... false" when the call has build_cluster_variable True, and the line
\* "... false" and not "... true" when it has False.
C17_BuildClusterLine ==
    \A i \in Calls :
        \A k \in DOMAIN invocations[i]["prepare_coclustering_deployment"] :
            LET rendered ==
                    render(TASKS[1],
                           PrepareBinding(invocations[i]["prepare_coclustering_deployment"][k]))
                lines == {rendered.scenario[j] : j \in DOMAIN rendered.scenario}
            IN  /\ rendered.error = ""
                /\ \A j \in DOMAIN rendered.scenario :
                      IsPrefixOf(TASKS[1].template[Outside(TASKS[1].template, j)].pre,
                                 rendered.scenario[j])
                /\ IF args[i].build_cluster_variable
                   THEN /\ "DeploymentSpec.BuildPredictedClusterAttribute true" \in lines
                        /\ "DeploymentSpec.BuildPredictedClusterAttribute false" \notin lines
                   ELSE /\ "DeploymentSpec.BuildPredictedClusterAttribute false" \in lines
                        /\ "DeploymentSpec.BuildPredictedClusterAttribute true" \notin lines

\* C17's case: a call with build_cluster_variable False has invoked the
\* prepare task.
C17_Witness ==
    \E i \in Calls :
        /\ ~args[i].build_cluster_variable
        /\ Len(invocations[i]["prepare_coclustering_deployment"]) = 1
        /\ pc[i] = "prepare_coclustering_deployment"

\* C18: in every domain deploy_model is invoked with, a variable is used
\* exactly when it has the TargetVariable key, or the predictor is a
\* Classifier and it has the Prediction key or a key starting with
\* TargetProb, or the predictor is not a Classifier and it has the Mean key,
\* whatever was used in the caller's dictionary.
C18_UsedVariables ==
    \A k \in DOMAIN deploy_invocations :
        LET dictionary == deploy_invocations[k]
            classifier == <<"PredictorType", "Classifier">> \in dictionary.meta_data
        IN  /\ Len(dictionary.variables) = Len(metrics_args.dictionary.variables)
            /\ \A v \in DOMAIN dictionary.variables :
                  LET keys == metrics_args.dictionary.variables[v].meta_data
                  IN  dictionary.variables[v].used <=>
                          \/ "TargetVariable" \in keys
                          \/ classifier /\ "Prediction" \in keys
                          \/ classifier /\ keys \cap {"TargetProb1", "TargetProb2"} # {}
                          \/ ~classifier /\ "Mean" \in keys

\* C18's case: deploy_model was invoked for a regressor with a used
\* probability variable that is left out and an unused Mean variable that is
\* taken.
C18_Witness ==
    /\ Len(deploy_invocations) = 1
    /\ <<"PredictorType", "Regressor">> \in metrics_args.dictionary.meta_data
    /\ \E v, w \in DOMAIN metrics_args.dictionary.variables :
          /\ metrics_args.dictionary.variables[v].meta_data = {"TargetProb2", "Mean"}
          /\ ~metrics_args.dictionary.variables[v].used
          /\ deploy_invocations[1].variables[v].used
          /\ metrics_args.dictionary.variables[w].meta_data = {"Prediction", "TargetProb1"}
          /\ metrics_args.dictionary.variables[w].used
          /\ ~deploy_invocations[1].variables[w].used

\* C20: once past its check, a call on a dictionary without the
\* PredictorType key has raised ValueError and deploy_model was not invoked.
C20_NotAPredictor ==
    (/\ metrics_pc \notin {"idle", "check_dictionary", "check_predictor"}
     /\ metrics_args.dictionary_file_path_or_domain # "invalid"
     /\ \A entry \in metrics_args.dictionary.meta_data : entry[1] # "PredictorType") =>
        /\ metrics_pc = "raised"
        /\ metrics_error = "ValueError"
        /\ deploy_invocations = <<>>

\* C20's case: the call on a dictionary without PredictorType, with a
\* variable that has the TargetVariable key, has raised.
C20_Witness ==
    /\ metrics_pc = "raised"
    /\ metrics_args.dictionary.meta_data = {}
    /\ \E v \in DOMAIN metrics_args.dictionary.variables :
          "TargetVariable" \in metrics_args.dictionary.variables[v].meta_data

C21_OneFormat ==
    \A i \in Calls :
        /\ Len(invocations[i]["detect_data_table_format"]) <= 1
        /\ \A e \in DOMAIN invocations[i]["extract_keys_from_data_table"] :
              LET extract == invocations[i]["extract_keys_from_data_table"][e]
              IN  /\ extract.header_line \in {"True", "False"}
                  /\ extract.field_separator # "None"
                  /\ extract.header_line = header_line[i]
                  /\ extract.field_separator = field_separator[i]
                  /\ extract.output_header_line = extract.header_line
                  /\ extract.output_field_separator = extract.field_separator
                  /\ extract.data_table_path = args[i].data_table_path
        /\ \A d \in DOMAIN invocations[i]["deploy_model"] :
              LET deploy == invocations[i]["deploy_model"][d]
                  extract == invocations[i]["extract_keys_from_data_table"][1]
              IN  /\ deploy.data_table_path = extract.output_data_table_path
                  /\ deploy.header_line = extract.output_header_line
                  /\ deploy.field_separator = extract.output_field_separator
                  /\ deploy.output_header_line = args[i].output_header_line
                  /\ deploy.output_field_separator = args[i].output_field_separator

\* C21's case: deploy_model was invoked by a call whose detected format
\* (no header, comma) differs in both parts from the output format asked
\* (header, semicolon).
C21_Witness ==
    \E i \in Calls :
        /\ Len(invocations[i]["detect_data_table_format"]) = 1
        /\ Len(invocations[i]["deploy_model"]) = 1
        /\ header_line[i] = "False"
        /\ field_separator[i] = ","
        /\ args[i].output_header_line = "True"
        /\ args[i].output_field_separator = ";"

\* C22: every file of the pipeline an engine task of a call is invoked to
\* read (the caller's own inputs apart) was written by an earlier step of
\* that call; so the dictionary file deploy_model is given is the file the
\* prepare task of the call has written, whatever results_prefix is.
C22_ReadsWereWritten ==
    \A i \in Calls : \A task \in ChainTasks :
        \A k \in DOMAIN invocations[i][task] :
            /\ Reads(task, invocations[i][task][k])
                   \subseteq {w.path : w \in {x \in writes : x.by = i}}
            /\ task = "deploy_model" =>
                  [path |-> invocations[i][task][k].dictionary_file_path, by |-> i,
                   task |-> "prepare_coclustering_deployment"] \in writes

\* C23: neither helper changes the domain its caller supplied. After
\* deploy_coclustering, however it ends, every dictionary of the caller's domain
\* still has the key it had, the key variables being set on a copy only; after
\* deploy_predictor_for_metrics, however it ends, the caller's dictionary has
\* the variables, with their "used" flags, that it was called with.
C23_CallerDomainUnchanged ==
    /\ domain_keys = DomainKeys
    /\ metrics_pc # "idle" => caller_domain = metrics_args.dictionary

\* Both helpers were given the caller's domain and returned: the temporary
\* dictionary has another key than the caller's, and the deployed dictionary
\* other "used" flags than the caller's.
C23_Witness ==
    /\ metrics_pc = "done"
    /\ metrics_args.dictionary_file_path_or_domain = "domain"
    /\ predictor_domain.variables # caller_domain.variables
    /\ \E i \in Calls :
           /\ pc[i] = "done"
           /\ args[i].dictionary_file_path_or_domain = "domain"
           /\ args[i].dictionary_name = "B"
           /\ tmp_dictionary_key[i] = <<"Id">>
           /\ domain_keys["B"] = <<"Age">>

====
